---- MODULE Spec2Model ----
(***************************************************************************)
(* Model of neox/model/gpt2_model.py: the layer-sequence builder           *)
(* (GPT2ModelPipe.init_specs), the two stage-boundary adapters, the mode   *)
(* switches, the tied LM head and the sequential reconstruction.           *)
(***************************************************************************)
EXTENDS Integers, Sequences, FiniteSets, TLC

\* ------------------------------------------------------------------ bounds
\* Largest num_layers drawn for a configuration.
MaxLayers == 2
\* Largest extent of either of the first two axes of a hidden-state tensor.
MaxDim == 2
\* Longest tuple handed to an adapter or to the LM head.
MaxArity == 4

\* Values of neox_args.attention_config entries that are drawn.
LayerKinds == {"global", "gmlp", "amlp"}

VARIABLES
    pc,             \* "new" before GPT2ModelPipe.__init__ has run, "ready" after
    neox_args,      \* [num_layers, attention_config, no_weight_tying]
    ctor,           \* the arguments __init__ is called with
    self,           \* [_inference, get_key_value, parallel_output]
    specs,          \* self.specs: the sequence init_specs returned
    forward_funcs,  \* the built stages the pipeline base class keeps
    mode,           \* history: which mode the model was last put in
    after_inf_cache,\* history: the previous operation was inference_mode(cache=True)
    seq,            \* the chain to_sequential returned last, or NoSeq
    weight,         \* value of word_embeddings_weight of each built EmbeddingPipe
    call            \* the last call: [op, args, result]

vars == <<pc, neox_args, ctor, self, specs, forward_funcs, mode, after_inf_cache,
          seq, weight, call>>

\* ------------------------------------------------------------ descriptors
\* deepspeed's TiedLayerSpec(key, typename, *args, forward_fn, tied_weight_attr)
TiedLayerSpec(key, typename, module_args, forward_fn, tied_weight_attr) ==
    [spec_type |-> "TiedLayerSpec", key |-> key, typename |-> typename,
     module_args |-> module_args, forward_fn |-> forward_fn,
     tied_weight_attr |-> tied_weight_attr]

\* deepspeed's LayerSpec(typename, *args, **kwargs)
LayerSpec(typename, module_args) ==
    [spec_type |-> "LayerSpec", typename |-> typename, module_args |-> module_args]

\* A bare function appended to the list (an adapter).
FunctionSpec(name) == [spec_type |-> "function", typename |-> name]

\* A variant of EmbeddingSpec that never ties the embedding.
EmbeddingSpec_Untied(s, nargs) == LayerSpec("EmbeddingPipe", <<"neox_args">>)

\* The first entry of init_specs.
EmbeddingSpec(s, nargs) ==
    IF ~nargs.no_weight_tying
    THEN TiedLayerSpec("embed", "EmbeddingPipe", <<"neox_args">>, "None",
                       "word_embeddings_weight")
    ELSE LayerSpec("EmbeddingPipe", <<"neox_args">>)

\* A variant of IsGMLPKind that forgets "amlp".
IsGMLPKind_GmlpOnly(layer_type) == layer_type = "gmlp"

\* `layer_type in ["gmlp", "amlp"]`
IsGMLPKind(layer_type) == layer_type \in {"gmlp", "amlp"}

\* One iteration of the transformer-layer loop, for Python index i (0-based).
TransformerLayerSpec(s, nargs, i) ==
    LET layer_type == nargs.attention_config[i + 1] IN
    IF IsGMLPKind(layer_type)
    THEN LayerSpec("GMLPBlock",
                   [layer_number |-> i, neox_args |-> "neox_args",
                    mask_fn |-> "gpt2_attention_mask_func"])
    ELSE LayerSpec("ParallelTransformerLayerPipe",
                   [neox_args |-> "neox_args",
                    attention_mask_func |-> "gpt2_attention_mask_func",
                    layer_number |-> i, get_key_value |-> s.get_key_value])

\* `for i in range(self.neox_args.num_layers)`
TransformerLayerSpecs(s, nargs) ==
    [k \in 1..nargs.num_layers |-> TransformerLayerSpec(s, nargs, k - 1)]

\* A variant of HeadSpec that leaves the linear head's flags at their defaults.
HeadSpec_DefaultFlags(s, nargs) ==
    IF ~nargs.no_weight_tying
    THEN TiedLayerSpec("embed", "EmbeddingPipe", <<"neox_args">>, "_logits_helper",
                       "word_embeddings_weight")
    ELSE LayerSpec("ParallelLinearPipe",
                   [neox_args |-> "neox_args", parallel_output |-> TRUE,
                    inference |-> FALSE])

\* The last entry of init_specs.
HeadSpec(s, nargs) ==
    IF ~nargs.no_weight_tying
    THEN TiedLayerSpec("embed", "EmbeddingPipe", <<"neox_args">>, "_logits_helper",
                       "word_embeddings_weight")
    ELSE LayerSpec("ParallelLinearPipe",
                   [neox_args |-> "neox_args", parallel_output |-> s.parallel_output,
                    inference |-> s._inference])

\* GPT2ModelPipe.init_specs
init_specs(s, nargs) ==
    <<EmbeddingSpec(s, nargs)>>
    \o <<FunctionSpec("_pre_transformer_block")>>
    \o TransformerLayerSpecs(s, nargs)
    \o <<FunctionSpec("_post_transformer_block")>>
    \o <<LayerSpec("NormPipe", <<"neox_args">>)>>
    \o <<HeadSpec(s, nargs)>>

\* ------------------------------------------------------------ construction
\* The attributes a built layer of class `typename` carries that this file reads or
\* sets: the caching flag of a transformer layer (constructor argument
\* get_key_value) and the output flag behind final_linear of the linear head.
ModuleAttrs(typename, module_args) ==
    CASE typename = "ParallelTransformerLayerPipe" ->
            [get_key_value |-> module_args.get_key_value]
      [] typename = "ParallelLinearPipe" ->
            [parallel_output |-> module_args.parallel_output]
      [] OTHER -> <<>>

\* spec.build(): a new instance `inst` of the descriptor's class.
Build(spec, inst) ==
    [kind |-> "module", typename |-> spec.typename, inst |-> inst,
     attrs |-> ModuleAttrs(spec.typename, spec.module_args)]

\* Lambda(fn) / a bare function kept as a stage.
FunctionStage(name) == [kind |-> "function", typename |-> name, inst |-> 0, attrs |-> <<>>]

\* Index of the first descriptor of `ss` carrying tie key `key`.
OwnerIndex(ss, key) ==
    CHOOSE n \in 1..Len(ss) :
        /\ ss[n].spec_type = "TiedLayerSpec" /\ ss[n].key = key
        /\ \A m \in 1..(n - 1) : ~(ss[m].spec_type = "TiedLayerSpec" /\ ss[m].key = key)

\* The stage the pipeline base class keeps in forward_funcs for descriptor n of the
\* `layers` handed to it: a tied descriptor shares the module built for its key and,
\* when it has a forward_fn, is kept as partial(forward_fn, module).
PipelineStage(ss, n) ==
    LET spec == ss[n] IN
    CASE spec.spec_type = "TiedLayerSpec" ->
            LET owner == OwnerIndex(ss, spec.key) IN
            IF spec.forward_fn = "None"
            THEN Build(ss[owner], owner)
            ELSE [kind |-> "partial", typename |-> spec.forward_fn, inst |-> owner,
                  attrs |-> <<>>]
      [] spec.spec_type = "LayerSpec" -> Build(spec, n)
      [] OTHER -> FunctionStage(spec.typename)

PipelineModuleInit(ss) == [n \in 1..Len(ss) |-> PipelineStage(ss, n)]

\* The fields GPT2ModelPipe.__init__ sets before it calls init_specs.
InitFields(c) ==
    [_inference |-> c.inference,
     get_key_value |-> IF c.inference THEN c.get_key_value ELSE FALSE,
     parallel_output |-> c.parallel_output]

NoSeq == [built |-> FALSE]
NoCall == [op |-> "none"]

Configs ==
    UNION {[num_layers : {n}, attention_config : [1..n -> LayerKinds],
            no_weight_tying : BOOLEAN] : n \in 0..MaxLayers}

CtorArgs == [parallel_output : BOOLEAN, inference : BOOLEAN, get_key_value : BOOLEAN]

\* The previous operation was inference_mode(cache=True).
LastWasInferenceCache == call.op = "inference_mode" /\ call.args = TRUE

\* Before construction: a configuration and the constructor's arguments.
Init ==
    /\ pc = "new"
    /\ neox_args \in Configs
    /\ ctor \in CtorArgs
    /\ self = [_inference |-> FALSE, get_key_value |-> FALSE, parallel_output |-> FALSE]
    /\ specs = <<>>
    /\ forward_funcs = <<>>
    /\ mode = "none"
    /\ after_inf_cache = FALSE
    /\ seq = NoSeq
    /\ weight = <<>>
    /\ call = NoCall

\* GPT2ModelPipe.__init__
Construct ==
    /\ pc = "new"
    /\ LET s == InitFields(ctor)
           ss == init_specs(s, neox_args)
       IN /\ self' = s
          /\ specs' = ss
          /\ forward_funcs' = PipelineModuleInit(ss)
          /\ mode' = IF ctor.inference THEN "inference" ELSE "train"
    /\ pc' = "ready"
    /\ after_inf_cache' = FALSE
    /\ call' = [op |-> "__init__"]
    /\ weight' = (1 :> 0)
    /\ UNCHANGED <<neox_args, ctor, seq>>


NextInit == Construct
SpecInit == Init /\ [][NextInit]_vars

\* --------------------------------------------------------------- tensors
\* A hidden-state tensor seen through its first two axes: entry [i][j] names the
\* position it was created at, so a transposition is visible in the data.
HiddenStates(b, s) == [i \in 1..b |-> [j \in 1..s |-> <<i, j>>]]

\* tensor.transpose(0, 1).contiguous(): the first two axes swapped.
transpose01(t) == [j \in 1..Len(t[1]) |-> [i \in 1..Len(t) |-> t[i][j]]]

\* An object is [id, data]: two objects are the same object iff their ids agree.
Obj(id, data) == [id |-> id, data |-> data]

Ids(x) == {x[k].id : k \in 1..Len(x)}

\* The id of an object created while the objects `live` exist.
NewId(live) == IF live = {} THEN 1 ELSE (CHOOSE m \in live : \A k \in live : k <= m) + 1

\* A tuple of `len` objects whose element 0 is a hidden-state tensor.
TupleOf(len, b, s) ==
    [k \in 1..len |-> IF k = 1 THEN Obj(1, HiddenStates(b, s)) ELSE Obj(k, "opaque")]

Tuples ==
    {<<>>} \cup {TupleOf(len, b, s) : len \in 1..MaxArity, b \in 1..MaxDim, s \in 1..MaxDim}

\* A Python value a stage returns: a tuple of objects, or a single tensor.
PyTuple(items) == [py |-> "tuple", items |-> items]
PyTensor(obj) == [py |-> "tensor", obj |-> obj]

Return(v) == [status |-> "return", value |-> v]
Raise(e) == [status |-> "raise", error |-> e]

\* ---------------------------------------------------------------- adapters
\* A variant of PreInferenceFn that passes cached_past on as the container.
PreInferenceFn_ReusesPast(x) ==
    <<Obj(NewId(Ids(x)), transpose01(x[1].data)), x[2], x[2]>> \o SubSeq(x, 3, Len(x))

\* lambda x: (x[0].transpose(0, 1).contiguous(), x[1], torch.Tensor(), *x[2:])
PreInferenceFn(x) ==
    LET h == Obj(NewId(Ids(x)), transpose01(x[1].data))
        presents == Obj(NewId(Ids(x) \cup {h.id}), <<>>)
    IN <<h, x[2], presents>> \o SubSeq(x, 3, Len(x))

\* lambda x: (x[0].transpose(0, 1).contiguous(), *x[1:])
PreTrainFn(x) ==
    <<Obj(NewId(Ids(x)), transpose01(x[1].data))>> \o SubSeq(x, 2, Len(x))

\* A variant of _pre_transformer_block that takes any longer tuple as training input.
_pre_transformer_block_Lenient(args) ==
    LET in_inference == Len(args) = 3
        in_train == Len(args) >= 2
    IN IF in_inference THEN Return(PyTuple(PreInferenceFn(args)))
       ELSE IF in_train THEN Return(PyTuple(PreTrainFn(args)))
       ELSE Raise("ValueError")

_pre_transformer_block(args) ==
    LET in_inference == Len(args) = 3
        in_train == Len(args) = 2
    IN IF in_inference THEN Return(PyTuple(PreInferenceFn(args)))
       ELSE IF in_train THEN Return(PyTuple(PreTrainFn(args)))
       ELSE Raise("ValueError")

\* A variant of PostInferenceFn that returns cached_past (x[1]) for the cache.
PostInferenceFn_ReturnsPast(x) == <<Obj(NewId(Ids(x)), transpose01(x[1].data)), x[2]>>

\* lambda x: (x[0].transpose(0, 1).contiguous(), x[2])
PostInferenceFn(x) == <<Obj(NewId(Ids(x)), transpose01(x[1].data)), x[3]>>

\* lambda x: x[0].transpose(0, 1).contiguous()
PostTrainFn(x) == Obj(NewId(Ids(x)), transpose01(x[1].data))

_post_transformer_block(args) ==
    LET in_inference == Len(args) = 4
        in_train == Len(args) = 2
    IN IF in_inference THEN Return(PyTuple(PostInferenceFn(args)))
       ELSE IF in_train THEN Return(PyTensor(PostTrainFn(args)))
       ELSE Raise("ValueError")

\* A call of the pre-adapter stage.
PreCall ==
    /\ pc = "ready"
    /\ \E x \in Tuples :
         call' = [op |-> "_pre_transformer_block", args |-> x,
                  result |-> _pre_transformer_block(x)]
    /\ after_inf_cache' = LastWasInferenceCache
    /\ UNCHANGED <<pc, neox_args, ctor, self, specs, forward_funcs, mode, seq, weight>>

\* A call of the post-adapter stage.
PostCall ==
    /\ pc = "ready"
    /\ \E x \in Tuples :
         call' = [op |-> "_post_transformer_block", args |-> x,
                  result |-> _post_transformer_block(x)]
    /\ after_inf_cache' = LastWasInferenceCache
    /\ UNCHANGED <<pc, neox_args, ctor, self, specs, forward_funcs, mode, seq, weight>>

NextAdapters == Construct \/ PreCall \/ PostCall
SpecAdapters == Init /\ [][NextAdapters]_vars

\* ------------------------------------------------------------ mode switches
\* recursive_setattr(m, attr, value): sets `attr` on every stage that has it and
\* skips the others.
recursive_setattr(m, attr, value) ==
    [n \in 1..Len(m) |->
        IF attr \in DOMAIN m[n].attrs
        THEN [m[n] EXCEPT !.attrs = [a \in DOMAIN m[n].attrs |->
                                        IF a = attr THEN value ELSE m[n].attrs[a]]]
        ELSE m[n]]

\* `isinstance(final_layer, (ParallelLinearPipe, ParallelLinear))`
IsLinearHead(final_layer) ==
    final_layer.kind = "module"
    /\ final_layer.typename \in {"ParallelLinearPipe", "ParallelLinear"}

\* final_layer.final_linear.set_parallel_output(value)
set_parallel_output(final_layer, value) ==
    [final_layer EXCEPT !.attrs = [parallel_output |-> value]]

\* GPT2ModelPipe._set_parallel_output: the stages after the call.
_set_parallel_output(ff, value) ==
    LET final_layer == ff[Len(ff)] IN
    IF IsLinearHead(final_layer)
    THEN [ff EXCEPT ![Len(ff)] = set_parallel_output(final_layer, value)]
    ELSE ff

\* GPT2ModelPipe.inference_mode(cache)
inference_mode ==
    /\ pc = "ready"
    /\ \E cache \in BOOLEAN :
         /\ forward_funcs' =
                _set_parallel_output(
                    recursive_setattr(forward_funcs, "get_key_value", cache), FALSE)
         /\ call' = [op |-> "inference_mode", args |-> cache, result |-> Return("None")]
    /\ mode' = "inference"
    /\ after_inf_cache' = LastWasInferenceCache
    /\ UNCHANGED <<pc, neox_args, ctor, self, specs, seq, weight>>

\* GPT2ModelPipe.train_mode()
train_mode ==
    /\ pc = "ready"
    /\ forward_funcs' =
           _set_parallel_output(
               recursive_setattr(forward_funcs, "get_key_value", FALSE), TRUE)
    /\ call' = [op |-> "train_mode", args |-> <<>>, result |-> Return("None")]
    /\ mode' = "train"
    /\ after_inf_cache' = LastWasInferenceCache
    /\ UNCHANGED <<pc, neox_args, ctor, self, specs, seq, weight>>

\* ------------------------------------------------------------ tied LM head
\* len(v): the number of elements of a tuple, the first extent of a tensor.
PyLen(v) == IF v.py = "tuple" THEN Len(v.items) ELSE Len(v.obj.data)

\* `a, b = v` for a v of length 2: the elements of a tuple, the two slices of a
\* tensor along its first axis.
PyUnpack2(v) ==
    IF v.py = "tuple" THEN v.items
    ELSE <<Obj(NewId({v.obj.id}), <<v.obj.data[1]>>),
           Obj(NewId({v.obj.id}) + 1, <<v.obj.data[2]>>)>>

LmOutputs ==
    {PyTuple(TupleOf(len, b, s)) : len \in 1..3, b \in 1..MaxDim, s \in 1..MaxDim}
    \cup {PyTensor(Obj(1, HiddenStates(b, s))) : b \in 1..MaxDim, s \in 1..MaxDim}

\* embedding.word_embeddings_weight of the built instance `inst`.
word_embeddings_weight(w, inst) == [inst |-> inst, value |-> w[inst]]

\* parallel_lm_logits(input_, word_embeddings_weight, parallel_output): what the
\* logits were computed from.
parallel_lm_logits(input_, word_weight, parallel_output) ==
    [py |-> "logits", input |-> input_, weight |-> word_weight,
     parallel_output |-> parallel_output]

\* The closure _logits_helper of init_specs, over `self` (s).
_logits_helper(s, w, embedding, lm_output) ==
    IF s._inference /\ PyLen(lm_output) = 2
    THEN LET hidden_states == PyUnpack2(lm_output)[1]
             presents == PyUnpack2(lm_output)[2]
         IN Return(PyTuple(<<parallel_lm_logits(hidden_states,
                                                word_embeddings_weight(w, embedding),
                                                s.parallel_output),
                             presents>>))
    ELSE Return(parallel_lm_logits(lm_output, word_embeddings_weight(w, embedding),
                                   s.parallel_output))

\* A call of the last pipeline stage when it is partial(_logits_helper, embedding).
LogitsHelperCall ==
    /\ pc = "ready"
    /\ forward_funcs[Len(forward_funcs)].kind = "partial"
    /\ \E x \in LmOutputs :
         call' = [op |-> "_logits_helper", args |-> x,
                  result |-> _logits_helper(self, weight,
                                            forward_funcs[Len(forward_funcs)].inst, x)]
    /\ after_inf_cache' = LastWasInferenceCache
    /\ UNCHANGED <<pc, neox_args, ctor, self, specs, forward_funcs, mode, seq, weight>>

NextModes == Construct \/ inference_mode \/ train_mode \/ LogitsHelperCall
SpecModes == Init /\ [][NextModes]_vars


\* ------------------------------------------------------------ to_sequential
\* A variant of KeyInTiedLayers that never finds the key.
KeyInTiedLayers_Never(tied_layers, key) == FALSE

\* `spec.key in tied_layers`
KeyInTiedLayers(tied_layers, key) == key \in DOMAIN tied_layers

\* The Lambda appended for a receiver: `lambda x: spec.forward_fn(
\* tied_layers[spec.key][0], x)`. It names the variables `spec` and `tied_layers`
\* of to_sequential's frame, which it reads when it is called.
ReceiverLambda == [kind |-> "closure", typename |-> "Lambda", inst |-> 0, attrs |-> <<>>]

\* The body of `for n, spec in enumerate(self.specs)` for the n-th descriptor, on the
\* frame f = [layers, tied_layers, spec, error]; built instances are numbered after
\* the `base` instances that already exist.
ToSequentialStep(f, ss, n, base) ==
    LET spec == ss[n]
        g == [f EXCEPT !.spec = spec]
    IN
    CASE spec.spec_type = "TiedLayerSpec" ->
            IF KeyInTiedLayers(f.tied_layers, spec.key)
            THEN [g EXCEPT !.layers = Append(@, ReceiverLambda)]
            ELSE LET module == Build(spec, base + n) IN
                 [g EXCEPT !.layers = Append(@, module),
                           !.tied_layers = @ @@ (spec.key :> <<module>>)]
      [] spec.spec_type = "LayerSpec" ->
            [g EXCEPT !.layers = Append(@, Build(spec, base + n))]
      [] spec.spec_type = "function" ->
            [g EXCEPT !.layers = Append(@, FunctionStage(spec.typename))]
      [] OTHER -> [g EXCEPT !.error = "ValueError"]

RECURSIVE ToSequentialLoop(_, _, _, _)
ToSequentialLoop(f, ss, n, base) ==
    IF n > Len(ss) \/ f.error # "None" THEN f
    ELSE ToSequentialLoop(ToSequentialStep(f, ss, n, base), ss, n + 1, base)

\* GPT2ModelPipe.to_sequential: the chain and the frame its closures read.
to_sequential(ss, base) ==
    LET f == ToSequentialLoop([layers |-> <<>>, tied_layers |-> <<>>,
                               spec |-> "unbound", error |-> "None"], ss, 1, base)
    IN [built |-> TRUE, layers |-> f.layers, tied_layers |-> f.tied_layers,
        spec |-> f.spec, error |-> f.error]

\* Calling the receiver's Lambda of chain c with input x:
\* spec.forward_fn(tied_layers[spec.key][0], x), with `spec` and `tied_layers` as
\* the frame holds them now.
CallReceiverLambda(c, s, w, x) ==
    LET spec == c.spec
        embedding == c.tied_layers[spec.key][1]
    IN [fn |-> spec.forward_fn, embedding |-> embedding.inst,
        result |-> IF spec.forward_fn = "_logits_helper"
                   THEN _logits_helper(s, w, embedding.inst, x)
                   ELSE Raise("TypeError")]

\* Instances of EmbeddingPipe among the stages `layers`.
EmbeddingInstances(layers) ==
    {layers[n].inst : n \in {m \in 1..Len(layers) :
        layers[m].kind = "module" /\ layers[m].typename = "EmbeddingPipe"}}

\* A call of to_sequential(); the new embedding's weight starts at any value.
ToSequential ==
    /\ pc = "ready"
    /\ LET c == to_sequential(specs, Len(forward_funcs)) IN
       /\ seq' = c
       /\ \E v \in {0, 1} :
            weight' = [i \in (DOMAIN weight \cup EmbeddingInstances(c.layers)) |->
                          IF i \in EmbeddingInstances(c.layers) THEN v ELSE weight[i]]
       /\ call' = [op |-> "to_sequential", args |-> <<>>,
                   result |-> IF c.error = "None" THEN Return("SequentialWrapper")
                              ELSE Raise(c.error)]
    /\ after_inf_cache' = LastWasInferenceCache
    /\ UNCHANGED <<pc, neox_args, ctor, self, specs, forward_funcs, mode>>

\* An update of one embedding's word_embeddings_weight (an optimizer step, a load).
UpdateWeight ==
    /\ pc = "ready"
    /\ \E i \in DOMAIN weight, v \in {0, 1} :
         /\ weight[i] # v
         /\ weight' = [weight EXCEPT ![i] = v]
         /\ call' = [op |-> "update_weight", args |-> <<i, v>>, result |-> Return("None")]
    /\ after_inf_cache' = LastWasInferenceCache
    /\ UNCHANGED <<pc, neox_args, ctor, self, specs, forward_funcs, mode, seq>>

\* A call of one stage of the chain that reads the embedding weight: the built
\* EmbeddingPipe (which looks its weight up), or the receiver's Lambda.
SequentialStageCall ==
    /\ pc = "ready"
    /\ seq.built
    /\ \E n \in 1..Len(seq.layers) :
         \/ /\ seq.layers[n].kind = "module"
            /\ seq.layers[n].typename = "EmbeddingPipe"
            /\ call' = [op |-> "sequential_stage", stage |-> n, args |-> <<>>,
                        fn |-> "forward", embedding |-> seq.layers[n].inst,
                        result |-> Return([py |-> "embeddings",
                            weight |-> word_embeddings_weight(weight, seq.layers[n].inst)])]
         \/ /\ seq.layers[n].kind = "closure"
            /\ \E x \in LmOutputs :
                 LET r == CallReceiverLambda(seq, self, weight, x) IN
                 call' = [op |-> "sequential_stage", stage |-> n, args |-> x,
                          fn |-> r.fn, embedding |-> r.embedding, result |-> r.result]
    /\ after_inf_cache' = LastWasInferenceCache
    /\ UNCHANGED <<pc, neox_args, ctor, self, specs, forward_funcs, mode, seq, weight>>

NextSeq == Construct \/ ToSequential \/ UpdateWeight \/ SequentialStageCall
SpecSeq == Init /\ [][NextSeq]_vars

\* Every operation of the model.
Next ==
    \/ Construct
    \/ PreCall
    \/ PostCall
    \/ inference_mode
    \/ train_mode
    \/ LogitsHelperCall
    \/ ToSequential
    \/ UpdateWeight
    \/ SequentialStageCall
Spec == Init /\ [][Next]_vars


\* ------------------------------------------------------------------ claims
\* C1: with weight tying enabled, for every num_layers >= 0, init_specs returns a
\* sequence with exactly two tied descriptors, both with key "embed": the owner is the
\* first entry, the receiver is the last entry, the owner comes strictly before
\* the receiver, and no other entry carries a tie key.
C1_TiedOwnerFirstReceiverLast ==
    (pc = "ready" /\ ~neox_args.no_weight_tying) =>
        LET tied == {n \in 1..Len(specs) : specs[n].spec_type = "TiedLayerSpec"} IN
        /\ Cardinality(tied) = 2
        /\ tied = {1, Len(specs)}
        /\ 1 < Len(specs)
        /\ \A n \in tied : specs[n].key = "embed"

C1_Witness ==
    /\ pc = "ready"
    /\ ~neox_args.no_weight_tying
    /\ neox_args.num_layers = 0
    /\ specs[1].spec_type = "TiedLayerSpec"

\* C2: with weight tying disabled, no entry of the sequence init_specs returns is a
\* tied descriptor, and the last entry is a plain ParallelLinearPipe descriptor built
\* with the model's parallel_output and inference flags.
C2_UntiedHeadIsLinear ==
    (pc = "ready" /\ neox_args.no_weight_tying) =>
        /\ \A n \in 1..Len(specs) : specs[n].spec_type # "TiedLayerSpec"
        /\ LET head == specs[Len(specs)] IN
           /\ head.spec_type = "LayerSpec"
           /\ head.typename = "ParallelLinearPipe"
           /\ head.module_args.parallel_output = ctor.parallel_output
           /\ head.module_args.inference = ctor.inference

C2_Witness ==
    /\ pc = "ready"
    /\ neox_args.no_weight_tying
    /\ ~ctor.parallel_output
    /\ ctor.inference
    /\ specs[Len(specs)].typename = "ParallelLinearPipe"

\* C3: for num_layers = N and a kind table of length N, init_specs returns exactly
\* N + 5 entries: embedding, pre-adapter, N transformer-stage descriptors,
\* post-adapter, final norm, head. The i-th transformer-stage descriptor carries
\* layer_number = i and is a GMLPBlock exactly when the kind at index i is "gmlp" or
\* "amlp", otherwise a ParallelTransformerLayerPipe.
C3_LayoutAndLayerKinds ==
    pc = "ready" =>
        LET N == neox_args.num_layers IN
        /\ Len(specs) = N + 5
        /\ specs[1].typename = "EmbeddingPipe"
        /\ specs[2] = [spec_type |-> "function", typename |-> "_pre_transformer_block"]
        /\ \A i \in 0..(N - 1) :
             LET d == specs[3 + i]
                 gated == neox_args.attention_config[i + 1] \in {"gmlp", "amlp"}
             IN /\ d.spec_type = "LayerSpec"
                /\ d.module_args.layer_number = i
                /\ d.typename = IF gated THEN "GMLPBlock"
                                ELSE "ParallelTransformerLayerPipe"
        /\ specs[N + 3] = [spec_type |-> "function", typename |-> "_post_transformer_block"]
        /\ specs[N + 4].typename = "NormPipe"
        /\ specs[N + 5].typename \in {"EmbeddingPipe", "ParallelLinearPipe"}

C3_Witness ==
    /\ pc = "ready"
    /\ neox_args.num_layers >= 2
    /\ neox_args.attention_config[1] = "amlp"
    /\ neox_args.attention_config[2] = "global"
    /\ specs[3].typename = "GMLPBlock"
    /\ specs[4].typename = "ParallelTransformerLayerPipe"

\* C4: the pre-adapter maps a 2-tuple (hidden_states, attention_mask) to
\* (transposed hidden_states, the same attention_mask), and a 3-tuple
\* (hidden_states, cached_past, attention_mask) to the 4-tuple (transposed
\* hidden_states, cached_past, a newly created empty container, attention_mask); the
\* attention mask is the last element of the output in both cases.
C4_PreAdapterShapes ==
    (call.op = "_pre_transformer_block" /\ Len(call.args) \in {2, 3}) =>
        LET x == call.args IN
        /\ call.result.status = "return"
        /\ call.result.value.py = "tuple"
        /\ LET v == call.result.value.items IN
           /\ Len(v) = IF Len(x) = 3 THEN 4 ELSE 2
           /\ Len(v[1].data) = Len(x[1].data[1])
           /\ \A j \in 1..Len(v[1].data) :
                /\ Len(v[1].data[j]) = Len(x[1].data)
                /\ \A i \in 1..Len(x[1].data) : v[1].data[j][i] = x[1].data[i][j]
           /\ v[2] = x[2]
           /\ v[Len(v)] = x[Len(x)]
           /\ Len(x) = 3 =>
                /\ \A k \in 1..Len(x) : v[3].id # x[k].id
                /\ v[3].id # v[1].id
                /\ v[3].data = <<>>

C4_Witness ==
    /\ call.op = "_pre_transformer_block"
    /\ Len(call.args) = 3
    /\ Len(call.args[1].data) # Len(call.args[1].data[1])
    /\ call.result.status = "return"
    /\ Len(call.result.value.items) = 4

\* C5: the post-adapter maps a 2-tuple to a single value, the transposed element 0
\* (not a tuple, the mask dropped), and a 4-tuple (hidden_states, cached_past,
\* accumulated_cache, attention_mask) to the 2-tuple (transposed hidden_states, the
\* original third element).
C5_PostAdapterShapes ==
    (call.op = "_post_transformer_block" /\ Len(call.args) \in {2, 4}) =>
        LET x == call.args IN
        /\ call.result.status = "return"
        /\ call.result.value.py = IF Len(x) = 4 THEN "tuple" ELSE "tensor"
        /\ LET v == call.result.value
               h == IF Len(x) = 4 THEN v.items[1] ELSE v.obj
           IN /\ Len(x) = 4 => (Len(v.items) = 2 /\ v.items[2] = x[3])
              /\ Len(h.data) = Len(x[1].data[1])
              /\ \A j \in 1..Len(h.data) :
                   /\ Len(h.data[j]) = Len(x[1].data)
                   /\ \A i \in 1..Len(x[1].data) : h.data[j][i] = x[1].data[i][j]

C5_Witness ==
    /\ call.op = "_post_transformer_block"
    /\ Len(call.args) = 4
    /\ Len(call.args[1].data) # Len(call.args[1].data[1])
    /\ call.result.status = "return"
    /\ call.result.value.items[2].id = 3

\* C6: the pre-adapter given a tuple of length other than 2 or 3, and the
\* post-adapter given a tuple of length other than 2 or 4, raise an error at the
\* adapter and return no value.
C6_OtherArityRaises ==
    (\/ call.op = "_pre_transformer_block" /\ Len(call.args) \notin {2, 3}
     \/ call.op = "_post_transformer_block" /\ Len(call.args) \notin {2, 4}) =>
        /\ call.result.status = "raise"
        /\ call.result.error = "ValueError"
        /\ "value" \notin DOMAIN call.result

C6_Witness ==
    /\ call.op = "_pre_transformer_block"
    /\ Len(call.args) = 4
    /\ call.result.status = "raise"

\* C7: inference_mode(cache=True) followed immediately by train_mode() leaves every
\* per-layer caching flag false and the output flag the final head uses true,
\* whatever the flags were before and whether the head is the tied head or the
\* linear head.
C7_RoundTripRestoresFlags ==
    (call.op = "train_mode" /\ after_inf_cache) =>
        /\ \A n \in 1..Len(forward_funcs) :
             "get_key_value" \in DOMAIN forward_funcs[n].attrs =>
                 forward_funcs[n].attrs.get_key_value = FALSE
        /\ LET head == forward_funcs[Len(forward_funcs)] IN
           IF head.kind = "partial"
           THEN self.parallel_output = TRUE
           ELSE head.attrs.parallel_output = TRUE

\* C8: a mode switch on a model whose final stage is not a linear head signals a
\* contract violation; it never completes silently.
C8_UnrecognizedHeadSignals ==
    (/\ call.op \in {"inference_mode", "train_mode"}
     /\ forward_funcs[Len(forward_funcs)].typename
            \notin {"ParallelLinearPipe", "ParallelLinear"}) =>
        call.result.status = "raise"

\* C10: the tied head's _logits_helper returns (logits, cached key/values), the
\* second element being the input's, whenever the model is in inference mode (by
\* construction or after inference_mode()) and the upstream output is a 2-tuple; in
\* every other case it returns logits only, computed from the whole upstream output.
C10_LogitsHelperFollowsMode ==
    call.op = "_logits_helper" =>
        LET x == call.args
            v == call.result.value
        IN /\ call.result.status = "return"
           /\ IF mode = "inference" /\ x.py = "tuple" /\ Len(x.items) = 2
              THEN /\ v.py = "tuple"
                   /\ Len(v.items) = 2
                   /\ v.items[1].py = "logits"
                   /\ v.items[1].input = x.items[1]
                   /\ v.items[2] = x.items[2]
              ELSE /\ v.py = "logits"
                   /\ v.input = x

\* C9: to_sequential on a tied descriptor sequence builds the tied layer once, at
\* the owner, and builds nothing at the receiver: the receiver's entry is a wrapper
\* which, when called, invokes the receiver descriptor's own forward_fn with the
\* owner's built instance, so both stages read the same weight object and a change
\* of it is seen by both.
C9_ReceiverSharesOwnerInstance ==
    (seq.built /\ ~neox_args.no_weight_tying) =>
        LET owner == 1
            receiver == Len(specs)
            embeddings == {n \in 1..Len(seq.layers) :
                              /\ seq.layers[n].kind = "module"
                              /\ seq.layers[n].typename = "EmbeddingPipe"}
        IN /\ seq.error = "None"
           /\ Len(seq.layers) = Len(specs)
           /\ embeddings = {owner}
           /\ seq.layers[receiver].kind = "closure"
           /\ (call.op = "sequential_stage" /\ call.stage = receiver) =>
                LET v == call.result.value
                    logits == IF v.py = "tuple" THEN v.items[1] ELSE v
                IN /\ call.fn = specs[receiver].forward_fn
                   /\ call.embedding = seq.layers[owner].inst
                   /\ logits.weight.inst = seq.layers[owner].inst
                   /\ logits.weight.value = weight[seq.layers[owner].inst]

C9_Witness ==
    /\ seq.built
    /\ ~neox_args.no_weight_tying
    /\ call.op = "sequential_stage"
    /\ call.stage = Len(specs)
    /\ call.fn = "_logits_helper"
    /\ weight[seq.layers[1].inst] = 1
    /\ weight[1] = 0

====
